---- MODULE Spec2Model ----
(***************************************************************************)
(* The decision maker agent of the health monitoring system                *)
(* (src/decision_maker.py): the alert state it keeps in ctx.storage, its   *)
(* three message handlers and the two notification routines they call.     *)
(*                                                                         *)
(* The agent framework hands the messages of one agent to their handlers   *)
(* one at a time, each handler awaited to its end before the next message  *)
(* is taken, so every handler is one action.  Time is the wall clock       *)
(* datetime.now() in whole seconds; it advances between handlers (Tick)    *)
(* and while handle_analysis awaits notify_user.                           *)
(***************************************************************************)
EXTENDS Integers, Sequences, FiniteSets, TLC

VARIABLES
    storage,    \* ctx.storage of the decision maker: key -> value
    now,        \* datetime.now(), seconds
    ep,         \* history: what happened in the current alert episode
    last,       \* history: what the last handler did
    everEscalated, \* history: notify_emergency_services was called at least once
    geoSeen,    \* history: the last GeoInfo handed to handle_traffic, if any
    mail,       \* messages sent and not yet taken: recipient -> sequence
    from,       \* the sender of the last message handled
    collector,  \* the collector agent: its stored data_points, and whether
                \* it is running
    buttons     \* a confirmation request with its two buttons is in the
                \* user's chat

vars == <<storage, now, ep, last, everEscalated, geoSeen, mail, from,
          collector, buttons>>

\* what the decision maker's handlers do not touch
env == <<geoSeen, mail, from, collector, buttons>>

(***************************** bounds ************************************)
TickSeconds == 100      \* the clock advances in steps of this many seconds
MaxTime == 900          \* the clock stops here
MaxAlerts == 5          \* alert=true judgments handled in one episode
MaxMail == 2            \* messages in flight
MaxBuffer == 7          \* samples the collector's buffer is let grow to

(*************************** constants ***********************************)
ALERT_THRESHOLD_TIME == 300
USER_RESPONSE_TIMEOUT == 300
EMERGENCY_SERVICE_ADDRESS == "emergency_service_address_here"

(***************************** values ************************************)
\* Python's None, and the truth value of an optional string (the empty string
\* is falsy too, and is never stored)
None == <<>>
Truthy(x) == x # None

\* datetime.isoformat() and datetime.fromisoformat(): the stored value is a
\* string, not a datetime; parsing gives the datetime back, and raises
\* TypeError / ValueError on anything that is no ISO string
isoformat(t) == <<"iso", t>>
IsIsoString(s) == Len(s) = 2 /\ s[1] = "iso"
fromisoformat(s) == s[2]

\* The GeoInfo messages the locator sends (their fields as declared)
GeoInfo ==
    { [patient_address |-> a, emergency_contact |-> "",
       nearest_hospital |-> h, estimated_travel_time |-> t]
      : a \in {"addr1"}, h \in {"hospA", "hospB"}, t \in {7} }

\* UserResponse.responded
Responded == BOOLEAN

\* the outcome of an external send: delivered, or an exception raised
SendOutcome == {"ok", "fail"}

\* how notify_emergency_services' try block ends: both sends done, the agent
\* send raised, or the agent send was done and the Telegram send raised
EmergencyOutcome == {"ok", "send_failed", "telegram_failed"}

\* getattr(msg, name): a pydantic model has only its declared fields
HasAttr(msg, name) == name \in DOMAIN msg

\* ctx.storage.get(key) is None when the key was never set
StorageHas(key) == key \in DOMAIN storage

InitialStatus ==
    [first_alert_time |-> None,
     consecutive_alerts |-> 0,
     user_notified |-> FALSE,
     user_responded |-> FALSE]

(************************** history records ******************************)
NoEpisode ==
    [trues |-> 0,           \* alert=true judgments handled in the episode
     start |-> 0,           \* the clock at the first of them
     notifyCalls |-> 0,     \* notify_user calls
     userMsgs |-> 0,        \* confirmation requests delivered to the user
     escCalls |-> 0,        \* notify_emergency_services calls
     escSent |-> 0,         \* EmergencyNotifications sent
     respTrue |-> FALSE,    \* the last UserResponse of the episode said true
     respAny |-> FALSE,     \* a UserResponse was handled in the episode
     resp23 |-> FALSE,      \* UserResponse{true} between 2nd and 3rd judgment,
                            \* and no UserResponse{false} after it
     resp23ever |-> FALSE,  \* UserResponse{true} between 2nd and 3rd judgment
     closed |-> FALSE]      \* the episode ended by a completed escalation

NoOp ==
    [op |-> "startup", alert |-> FALSE, responded |-> FALSE,
     notifyCalled |-> FALSE, escalate |-> FALSE, elapsed |-> 0,
     out |-> <<>>, raised |-> FALSE, before |-> InitialStatus]

(************************** should_contact_emergency *********************)
\* Mutants of should_contact_emergency: the count compared with 2, the
\* persistence condition left out, and "notified or not responded".
should_contact_emergency_count2(status, t) ==
    /\ Truthy(status.first_alert_time)
    /\ t - fromisoformat(status.first_alert_time) >= ALERT_THRESHOLD_TIME
    /\ status.consecutive_alerts >= 2
    /\ (status.user_notified /\ ~status.user_responded)

should_contact_emergency_notime(status, t) ==
    /\ Truthy(status.first_alert_time)
    /\ status.consecutive_alerts >= 3
    /\ (status.user_notified /\ ~status.user_responded)

should_contact_emergency_or(status, t) ==
    /\ Truthy(status.first_alert_time)
    /\ t - fromisoformat(status.first_alert_time) >= ALERT_THRESHOLD_TIME
    /\ status.consecutive_alerts >= 3
    /\ (status.user_notified \/ ~status.user_responded)

\* t is datetime.now() at the call
should_contact_emergency(status, t) ==
    IF ~Truthy(status.first_alert_time) THEN FALSE
    ELSE IF ~IsIsoString(status.first_alert_time) THEN FALSE
    ELSE LET first_alert_time == fromisoformat(status.first_alert_time)
             time_difference == t - first_alert_time
         IN  /\ time_difference >= ALERT_THRESHOLD_TIME
             /\ status.consecutive_alerts >= 3
             /\ (status.user_notified /\ ~status.user_responded)

(******************************* notify_user *****************************)
\* The Telegram message with the two response buttons.  Every exception is
\* caught and logged: the routine returns normally and changes no state.
notify_user(outcome) ==
    [out |-> IF outcome = "ok"
             THEN << [type |-> "UserNotification"] >>
             ELSE <<>>]

(************************ notify_emergency_services **********************)
\* Mutant: no early return when the location is missing; the notification
\* goes out with placeholder fields.
notify_emergency_services_noreturn(status, context, outcome) ==
    LET notification ==
            [type |-> "EmergencyNotification",
             to |-> EMERGENCY_SERVICE_ADDRESS,
             location |-> "unknown", context |-> context,
             nearest_hospital |-> "unknown", estimated_arrival |-> 0]
    IN  CASE outcome = "send_failed" ->
               [out |-> <<>>, status |-> status, reset |-> FALSE]
          [] outcome = "telegram_failed" ->
               [out |-> <<notification>>, status |-> status, reset |-> FALSE]
          [] OTHER ->
               [out |-> <<notification, [type |-> "EmergencyContactAlert"]>>,
                status |-> [status EXCEPT
                              !.first_alert_time = None,
                              !.consecutive_alerts = 0,
                              !.user_notified = FALSE,
                              !.user_responded = FALSE],
                reset |-> TRUE]

\* status is the dict handle_analysis holds: ctx.storage.get returns the
\* stored object itself, so the reset below is seen through it.
notify_emergency_services(status, context, outcome) ==
    IF ~StorageHas("geo_info")
    THEN \* "No location information available!": return
         [out |-> <<>>, status |-> status, reset |-> FALSE]
    ELSE LET geo_info == storage["geo_info"]
             notification ==
                 [type |-> "EmergencyNotification",
                  to |-> EMERGENCY_SERVICE_ADDRESS,
                  location |-> geo_info.patient_address,
                  context |-> context,
                  nearest_hospital |-> geo_info.nearest_hospital,
                  estimated_arrival |-> geo_info.estimated_travel_time]
             contact == [type |-> "EmergencyContactAlert"]
         IN  CASE outcome = "send_failed" ->
                    [out |-> <<>>, status |-> status, reset |-> FALSE]
               [] outcome = "telegram_failed" ->
                    [out |-> <<notification>>, status |-> status,
                     reset |-> FALSE]
               [] OTHER ->
                    [out |-> <<notification, contact>>,
                     status |-> [status EXCEPT
                                   !.first_alert_time = None,
                                   !.consecutive_alerts = 0,
                                   !.user_notified = FALSE,
                                   !.user_responded = FALSE],
                     reset |-> TRUE]

(********************************* startup *******************************)
startup ==
    storage = [alert_status |-> InitialStatus]

Init ==
    /\ startup
    /\ now = 0
    /\ ep = NoEpisode
    /\ last = NoOp
    /\ everEscalated = FALSE
    /\ geoSeen = <<>>
    /\ mail = [decision_maker |-> <<>>, collector |-> <<>>]
    /\ from = "nobody"
    /\ collector = [data_points |-> <<>>, running |-> TRUE]
    /\ buttons = FALSE

\* the EmergencyNotifications among the messages a handler sent
Emergencies(out) ==
    { i \in DOMAIN out : out[i].type = "EmergencyNotification" }

(***************************** handle_analysis ***************************)
\* Mutant: the alert=false branch zeroes the flags and keeps the counter.
reset_status_keepcount(status) ==
    [status EXCEPT !.first_alert_time = None,
                   !.user_notified = FALSE,
                   !.user_responded = FALSE]

\* the dict that replaces status when the judgment is alert=false
reset_status(status) ==
    [first_alert_time |-> None,
     consecutive_alerts |-> 0,
     user_notified |-> FALSE,
     user_responded |-> FALSE]

\* Mutant: every alert=true judgment stamps the first alert time anew.
set_first_alert_time_always(status, current_time) ==
    [status EXCEPT !.first_alert_time = isoformat(current_time)]

\* if status['first_alert_time'] is None: store the clock as an ISO string
set_first_alert_time(status, current_time) ==
    IF status.first_alert_time = None
    THEN [status EXCEPT !.first_alert_time = isoformat(current_time)]
    ELSE status

\* msg is the AccidentAnalysis; notifyOutcome and emOutcome are how the two
\* dispatches end when they are made; d is the time the await of notify_user
\* takes, which passes before should_contact_emergency reads the clock.
handle_analysis(msg, notifyOutcome, emOutcome, d) ==
    LET status == storage["alert_status"]
        current_time == now
        s1 == set_first_alert_time(status, current_time)
        s2 == [s1 EXCEPT !.consecutive_alerts = @ + 1]
        callNotify == ~s2.user_notified /\ s2.consecutive_alerts >= 2
        nu == IF callNotify THEN notify_user(notifyOutcome) ELSE [out |-> <<>>]
        s3 == IF callNotify THEN [s2 EXCEPT !.user_notified = TRUE] ELSE s2
        t2 == IF callNotify THEN now + d ELSE now
        escalate == should_contact_emergency(s3, t2)
        em == IF escalate
              THEN notify_emergency_services(s3, msg.context, emOutcome)
              ELSE [out |-> <<>>, status |-> s3, reset |-> FALSE]
        s4 == em.status
        prev == IF ep.closed THEN NoEpisode ELSE ep
        open == IF prev.trues = 0 THEN [prev EXCEPT !.start = current_time]
                ELSE prev
    IN  IF msg.alert
        THEN /\ open.trues < MaxAlerts
             /\ status.consecutive_alerts < MaxAlerts
             /\ t2 <= MaxTime
             /\ storage' = [storage EXCEPT !["alert_status"] = s4]
             /\ now' = t2
             /\ ep' = [open EXCEPT
                         !.trues = @ + 1,
                         !.notifyCalls = @ + (IF callNotify THEN 1 ELSE 0),
                         !.userMsgs = @ + Len(nu.out),
                         !.escCalls = @ + (IF escalate THEN 1 ELSE 0),
                         !.escSent = @ + Cardinality(Emergencies(em.out)),
                         !.closed = em.reset]
             /\ last' = [op |-> "analysis", alert |-> TRUE,
                         responded |-> FALSE,
                         notifyCalled |-> callNotify, escalate |-> escalate,
                         elapsed |-> t2 - open.start,
                         out |-> nu.out \o em.out, raised |-> FALSE,
                         before |-> status]
             /\ everEscalated' = (everEscalated \/ escalate)
        ELSE \* Reset alert status if no alert
             /\ storage' = [storage EXCEPT !["alert_status"] =
                               reset_status(status)]
             /\ ep' = NoEpisode
             /\ last' = [NoOp EXCEPT !.op = "analysis", !.before = status]
             /\ UNCHANGED <<now, everEscalated>>

(****************************** handle_traffic ***************************)
\* Mutant: the failing handler leaves a fresh status behind.
handle_traffic_clears(msg) ==
    LET status == storage["alert_status"]
    IN  /\ storage' = [storage EXCEPT !["alert_status"] = InitialStatus]
        /\ last' = [NoOp EXCEPT !.op = "traffic", !.raised = TRUE,
                                !.before = status]
        /\ UNCHANGED <<now, ep, everEscalated>>

\* Reads msg.traffic_level, which GeoInfo does not declare: the read raises
\* AttributeError before the status is touched, and the framework logs it.
handle_traffic(msg) ==
    LET status == storage["alert_status"]
    IN  IF HasAttr(msg, "traffic_level")
        THEN /\ storage' = [storage EXCEPT !["alert_status"] =
                               [k \in DOMAIN status \cup {"traffic_status"} |->
                                  IF k = "traffic_status"
                                  THEN msg["traffic_level"] ELSE status[k]]]
             /\ last' = [NoOp EXCEPT !.op = "traffic", !.before = status]
             /\ UNCHANGED <<now, ep, everEscalated>>
        ELSE /\ last' = [NoOp EXCEPT !.op = "traffic", !.raised = TRUE,
                                     !.before = status]
             /\ UNCHANGED <<storage, now, ep, everEscalated>>

(*************************** handle_user_response ************************)
\* Mutant: any UserResponse counts as a response.
set_user_responded_any(status, msg) ==
    [status EXCEPT !.user_responded = TRUE]

\* Mutant: the wrong key is written.
set_user_notified(status, msg) ==
    [status EXCEPT !.user_notified = msg.responded]

\* status['user_responded'] = msg.responded
set_user_responded(status, msg) ==
    [status EXCEPT !.user_responded = msg.responded]

handle_user_response(msg) ==
    LET status == storage["alert_status"]
        inEpisode == ep.trues >= 1 /\ ~ep.closed
    IN  /\ storage' = [storage EXCEPT !["alert_status"] =
                          set_user_responded(status, msg)]
        /\ ep' = IF inEpisode
                 THEN [ep EXCEPT
                         !.respAny = TRUE,
                         !.respTrue = msg.responded,
                         !.resp23 = IF msg.responded
                                    THEN (@ \/ ep.trues = 2) ELSE FALSE,
                         !.resp23ever = @ \/ (msg.responded /\ ep.trues = 2)]
                 ELSE ep
        /\ last' = [NoOp EXCEPT !.op = "response",
                                !.responded = msg.responded,
                                !.before = status]
        /\ UNCHANGED <<now, everEscalated>>

(********************************** clock ********************************)
Tick ==
    /\ now + TickSeconds <= MaxTime
    /\ now' = now + TickSeconds
    /\ UNCHANGED <<storage, ep, last, everEscalated>>

AccidentAnalysis == [alert : BOOLEAN, context : {"reason"}]
UserResponse == [responded : Responded]

\* The decision maker alone: its messages come from anywhere, at any time.
Next ==
    \/ \E msg \in AccidentAnalysis, no \in SendOutcome,
          eo \in EmergencyOutcome, d \in {0, TickSeconds} :
            handle_analysis(msg, no, eo, d) /\ UNCHANGED env
    \/ \E msg \in GeoInfo : handle_traffic(msg) /\ UNCHANGED env
    \/ \E msg \in UserResponse : handle_user_response(msg) /\ UNCHANGED env
    \/ Tick /\ UNCHANGED env

Spec == Init /\ [][Next]_vars

\* The same, with time passing: the clock is the only thing that runs
\* whatever messages arrive.  The decision maker registers message handlers
\* only, no interval handler, so nothing else is scheduled.
SpecTime == Init /\ [][Next]_vars /\ WF_vars(Tick /\ UNCHANGED env)

\* The decision maker with the GeoInfo messages it was handed remembered.
NextGeo ==
    \/ \E msg \in AccidentAnalysis, no \in SendOutcome,
          eo \in EmergencyOutcome, d \in {0, TickSeconds} :
            handle_analysis(msg, no, eo, d) /\ UNCHANGED env
    \/ \E msg \in GeoInfo :
            /\ handle_traffic(msg)
            /\ geoSeen' = <<msg>>
            /\ UNCHANGED <<mail, from, collector, buttons>>
    \/ Tick /\ UNCHANGED env

SpecGeo == Init /\ [][NextGeo]_vars

\* The decision maker with messages about two monitored subjects reaching it:
\* `sender` is the handlers' second argument.  No message model carries a
\* subject, and the handlers use `sender` for the log line only.  Time
\* passes here while a judgment is being handled (its argument d).
Subjects == {"subjectA", "subjectB"}

\* the alert state the handlers read and write for a sender's message:
\* ctx.storage.get('alert_status'), the one key, whoever sent it
AlertStateOf(sender) == storage["alert_status"]

NextSubjects ==
    \/ \E sender \in Subjects, msg \in AccidentAnalysis, no \in SendOutcome,
          eo \in EmergencyOutcome, d \in {0, TickSeconds} :
            /\ handle_analysis(msg, no, eo, d)
            /\ from' = sender
            /\ UNCHANGED <<geoSeen, mail, collector, buttons>>
    \/ \E sender \in Subjects, msg \in GeoInfo :
            /\ handle_traffic(msg)
            /\ from' = sender
            /\ UNCHANGED <<geoSeen, mail, collector, buttons>>
    \/ \E sender \in Subjects, msg \in UserResponse :
            /\ handle_user_response(msg)
            /\ from' = sender
            /\ UNCHANGED <<geoSeen, mail, collector, buttons>>

SpecSubjects == Init /\ [][NextSubjects]_vars

(***************************************************************************)
(* The analyzer agent (src/analyzer_agent.py) in front of the decision     *)
(* maker: it takes a batch from the collector, asks the classifier and     *)
(* sends an AccidentAnalysis.                                              *)
(***************************************************************************)
\* os.getenv("DECISION_MAKER_ADDRESS"), and the sender of the batches
DECISION_MAKER_ADDRESS == "decision_maker"
COLLECTOR_ADDRESS == "collector"

\* model.generate_content and the parse of its text: an "ALERT:" line with
\* "true" in it, none such, or an exception anywhere in the try block
ClassifierResult == {"alert", "no_alert", "raise"}

InFlight == Len(mail.decision_maker) + Len(mail.collector)

\* ctx.send(destination, message)
Send(destination, message) ==
    [mail EXCEPT ![destination] = Append(@, message)]

analyze_health_data(sender, result, sendOutcome) ==
    LET analysis == [type |-> "AccidentAnalysis",
                     alert |-> (result = "alert"), context |-> "reason"]
        failed == [type |-> "AccidentAnalysis",
                   alert |-> FALSE, context |-> "Error analyzing data"]
    IN  /\ InFlight < MaxMail
        /\ IF result # "raise"
           THEN \* the send to the decision maker has its own try/except
                IF sendOutcome = "ok"
                THEN /\ mail' = Send(DECISION_MAKER_ADDRESS, analysis)
                     /\ last' = [NoOp EXCEPT
                            !.op = "analyze",
                            !.out = << analysis @@
                                       [to |-> DECISION_MAKER_ADDRESS] >>]
                ELSE /\ mail' = mail
                     /\ last' = [NoOp EXCEPT !.op = "analyze"]
           ELSE \* except Exception: the fallback goes back to the sender
                /\ mail' = Send(sender, failed)
                /\ last' = [NoOp EXCEPT
                       !.op = "analyze", !.raised = TRUE,
                       !.out = << failed @@ [to |-> sender] >>]
        /\ UNCHANGED <<storage, now, ep, everEscalated, geoSeen, from,
                       collector, buttons>>

\* The decision maker takes the next AccidentAnalysis sent to it.
receive_analysis(notifyOutcome, emOutcome, d) ==
    /\ mail.decision_maker # <<>>
    /\ LET m == Head(mail.decision_maker)
       IN  handle_analysis([alert |-> m.alert, context |-> "reason"],
                           notifyOutcome, emOutcome, d)
    /\ mail' = [mail EXCEPT !.decision_maker = Tail(@)]
    /\ from' = "analyzer"
    /\ UNCHANGED <<geoSeen, collector, buttons>>

\* The collector includes the health protocol only, which has no handler
\* for AccidentAnalysis: what is sent to it is taken and dropped.
collector_unhandled ==
    /\ mail.collector # <<>>
    /\ mail' = [mail EXCEPT !.collector = Tail(@)]
    /\ UNCHANGED <<storage, now, ep, last, everEscalated, geoSeen, from,
                   collector, buttons>>

NextPipeline ==
    \/ \E result \in ClassifierResult, so \in SendOutcome :
            analyze_health_data(COLLECTOR_ADDRESS, result, so)
    \/ \E no \in SendOutcome, eo \in EmergencyOutcome,
          d \in {0, TickSeconds} : receive_analysis(no, eo, d)
    \/ collector_unhandled
    \/ Tick /\ UNCHANGED env

SpecPipeline == Init /\ [][NextPipeline]_vars

(***************************************************************************)
(* The decision maker with the user's Telegram chat: the UserResponses it  *)
(* handles are those the button callback of notify_user sends.             *)
(***************************************************************************)
\* callback_data of the two buttons: "I'm OK" and "Need Help"
ButtonData == {"ok", "help"}

\* Mutant: the response says whether the user pressed "I'm OK".
button_response_isok(data) == [responded |-> (data = "ok")]

\* UserResponse(responded=True, response_time=..., is_ok=...): is_ok is no
\* field of UserResponse and response_time is read by nobody
button_response(data) == [responded |-> TRUE]

\* The user presses a button of a confirmation request: the callback sends
\* the response to the agent's own address, ctx.send(ctx.address, response).
button_callback(data) ==
    LET response == [type |-> "UserResponse"] @@ button_response(data)
    IN  /\ buttons
        /\ InFlight < MaxMail
        /\ mail' = Send(DECISION_MAKER_ADDRESS, response)
        /\ last' = [NoOp EXCEPT !.op = "button", !.out = <<response>>]
        /\ UNCHANGED <<storage, now, ep, everEscalated, geoSeen, from,
                       collector, buttons>>

\* The decision maker takes the next UserResponse sent to it.
receive_response ==
    /\ mail.decision_maker # <<>>
    /\ LET m == Head(mail.decision_maker)
       IN  /\ m.type = "UserResponse"
           /\ handle_user_response([responded |-> m.responded])
    /\ mail' = [mail EXCEPT !.decision_maker = Tail(@)]
    /\ UNCHANGED <<geoSeen, from, collector, buttons>>

\* a confirmation request was delivered by the handler that just ran
RequestDelivered(out) ==
    \E i \in DOMAIN out : out[i].type = "UserNotification"

NextButtons ==
    \/ \E msg \in AccidentAnalysis, no \in SendOutcome,
          eo \in EmergencyOutcome, d \in {0, TickSeconds} :
            /\ handle_analysis(msg, no, eo, d)
            /\ buttons' = (buttons \/ RequestDelivered(last'.out))
            /\ UNCHANGED <<geoSeen, mail, from, collector>>
    \/ \E data \in ButtonData : button_callback(data)
    \/ receive_response
    \/ Tick /\ UNCHANGED env

SpecButtons == Init /\ [][NextButtons]_vars

(***************************************************************************)
(* The collector agent (src/collector_agent.py): every 5 seconds it fetches *)
(* one sample over HTTP, keeps it in ctx.storage['data_points'], and sends *)
(* the samples to the analyzer as one AggregatedHealthData.                *)
(***************************************************************************)
\* the number of data points that makes a batch (len(data_points) >= 5)
BatchSize == 5

\* os.getenv("ANALYZER_ADDRESS")
ANALYZER_ADDRESS == "analyzer"

\* response.json() of the samples endpoint: a sample with the nesting
\* aggregate_and_send_data reads (vital_signs, movement_data, context), and
\* one as get_metrics of src/health-metrics/health_simulator.py returns it,
\* with the measurements at the top level
HealthSample ==
    { [timestamp |-> "t", user_id |-> "user123", vital_signs |-> "vs",
       movement_data |-> "md", context |-> "cx"],
      [timestamp |-> "t", user_id |-> "user123", heart_rate |-> "hr",
       blood_pressure |-> "bp"] }

\* requests.get(url): status 200 with a sample, another status, or no
\* response at all (status 0: the call raised)
HttpResponse ==
    { [status |-> 200, data |-> x] : x \in HealthSample }
        \cup { [status |-> n, data |-> None] : n \in {500, 0} }

\* the loop over data_points reads point['vital_signs'],
\* point['movement_data'] and point['context']: KeyError when one is missing
Aggregable(data_points) ==
    \A i \in DOMAIN data_points :
        {"timestamp", "vital_signs", "movement_data", "context"}
            \subseteq DOMAIN data_points[i]

\* Returns what was sent, and whether an exception left the routine: the
\* aggregation loop is outside the try block, the construction of the
\* message and the send are inside it.
aggregate_and_send_data(data_points, sendOutcome) ==
    IF data_points = <<>>
    THEN [out |-> <<>>, raised |-> FALSE]
    ELSE IF ~Aggregable(data_points)
    THEN [out |-> <<>>, raised |-> TRUE]
    ELSE LET health_data ==
                 [type |-> "AggregatedHealthData",
                  to |-> ANALYZER_ADDRESS,
                  user_id |-> data_points[1].user_id,
                  timestamps |-> [i \in DOMAIN data_points |->
                                    data_points[i].timestamp]]
         IN  IF sendOutcome = "ok"
             THEN [out |-> <<health_data>>, raised |-> FALSE]
             ELSE [out |-> <<>>, raised |-> FALSE]

\* Mutant: the batch is sent when more than 5 data points are there.
batch_collected_late(data_points) == Len(data_points) > BatchSize

\* if len(data_points) >= 5
batch_collected(data_points) == Len(data_points) >= BatchSize

\* One tick of the interval handler.  Everything is inside one try block
\* whose except logs the error: an exception out of aggregate_and_send_data
\* skips the reset of the buffer.
fetch_health_data(response, sendOutcome) ==
    LET data_points == Append(collector.data_points, response.data)
        sent == aggregate_and_send_data(data_points, sendOutcome)
    IN  /\ collector.running
        /\ Len(collector.data_points) < MaxBuffer
        /\ IF response.status = 200
           THEN IF batch_collected(data_points)
                THEN IF sent.raised
                     THEN /\ collector' =
                               [collector EXCEPT !.data_points = data_points]
                          /\ last' = [NoOp EXCEPT !.op = "fetch",
                                                  !.raised = TRUE]
                     ELSE /\ collector' =
                               [collector EXCEPT !.data_points = <<>>]
                          /\ last' = [NoOp EXCEPT !.op = "fetch",
                                                  !.out = sent.out]
                ELSE /\ collector' =
                          [collector EXCEPT !.data_points = data_points]
                     /\ last' = [NoOp EXCEPT !.op = "fetch"]
           ELSE /\ collector' = collector
                /\ last' = [NoOp EXCEPT !.op = "fetch",
                                        !.raised = (response.status = 0)]
        /\ UNCHANGED <<storage, now, ep, everEscalated, geoSeen, mail, from,
                       buttons>>

\* on_event("shutdown"): aggregate any remaining data; nothing is reset
collector_shutdown(sendOutcome) ==
    LET sent == aggregate_and_send_data(collector.data_points, sendOutcome)
    IN  /\ collector.running
        /\ collector' = [collector EXCEPT !.running = FALSE]
        /\ last' = [NoOp EXCEPT !.op = "shutdown", !.out = sent.out,
                                !.raised = sent.raised]
        /\ UNCHANGED <<storage, now, ep, everEscalated, geoSeen, mail, from,
                       buttons>>

\* on_event("startup") of the collector, when it is run again
collector_startup ==
    /\ ~collector.running
    /\ collector' = [data_points |-> <<>>, running |-> TRUE]
    /\ last' = [NoOp EXCEPT !.op = "collector_startup"]
    /\ UNCHANGED <<storage, now, ep, everEscalated, geoSeen, mail, from,
                   buttons>>

NextCollector ==
    \/ \E response \in HttpResponse, so \in SendOutcome :
            fetch_health_data(response, so)
    \/ \E so \in SendOutcome : collector_shutdown(so)
    \/ collector_startup

SpecCollector == Init /\ [][NextCollector]_vars

(***************************************************************************)
(*                              Properties                                 *)
(***************************************************************************)
AlertStatus == storage["alert_status"]

\* the last handler was handle_analysis with an alert=true judgment
AlertHandled == last.op = "analysis" /\ last.alert

\* C1: handle_analysis never calls notify_emergency_services while fewer
\* than 3 consecutive alert=true judgments have been handled since the last
\* alert=false judgment or episode reset, whatever time has elapsed.
C1_EscalationNeedsThreeAlerts ==
    last.escalate => ep.trues >= 3

\* a new episode, after an earlier one escalated and was reset by a false
\* judgment: two alerts, the threshold long passed, no escalation
C1_Witness ==
    /\ AlertHandled /\ everEscalated
    /\ ep.trues = 2
    /\ last.elapsed >= ALERT_THRESHOLD_TIME
    /\ AlertStatus.user_notified /\ ~AlertStatus.user_responded
    /\ ~last.escalate

\* C2: no escalation is triggered while the time since the episode's first
\* alert is below ALERT_THRESHOLD_TIME, however many alerts were handled.
C2_EscalationNeedsPersistence ==
    last.escalate => last.elapsed >= ALERT_THRESHOLD_TIME

C2_Witness ==
    /\ AlertHandled
    /\ ep.trues >= 4
    /\ last.elapsed < ALERT_THRESHOLD_TIME
    /\ AlertStatus.user_notified /\ ~AlertStatus.user_responded
    /\ ~last.escalate

\* C3: no escalation is triggered while user_responded is true, whatever the
\* time and the count; after a UserResponse{responded: true} handled between
\* the 2nd and the 3rd alert no EmergencyNotification is sent in the rest of
\* the episode, and none is attempted while that response stands.
C3_NoEscalationAfterResponse ==
    /\ last.escalate =>
           /\ ~last.before.user_responded
           /\ ~ep.respTrue
           /\ ~ep.resp23
    /\ ep.resp23ever => ep.escSent = 0

C3_Witness ==
    /\ AlertHandled
    /\ ep.resp23
    /\ ep.trues >= 3
    /\ last.elapsed >= ALERT_THRESHOLD_TIME
    /\ AlertStatus.user_notified
    /\ ~last.escalate

C5_EscalationWithoutLocation ==
    (last.escalate /\ ~StorageHas("geo_info")) =>
        \E i \in Emergencies(last.out) :
            last.out[i].estimated_arrival = "unknown"

\* C6: three alert=true judgments and no user response: one confirmation
\* request while handling the 2nd, then, the threshold having passed, one
\* EmergencyNotification while handling the 3rd.
C6_NotifyThenEscalate ==
    (AlertHandled /\ ~ep.respAny /\ ~last.before.user_responded) =>
        /\ ep.trues = 2 =>
              /\ last.notifyCalled
              /\ ep.notifyCalls = 1
              /\ ep.escSent = 0
        /\ (ep.trues = 3 /\ last.elapsed >= ALERT_THRESHOLD_TIME) =>
              /\ ~last.notifyCalled
              /\ ep.notifyCalls = 1
              /\ Cardinality(Emergencies(last.out)) = 1
              /\ ep.escSent = 1

\* C7: every escalation attempt is preceded, in the same episode, by a
\* notify_user call.
C7_NotifiedBeforeEscalation ==
    last.escalate => (ep.notifyCalls >= 1 /\ last.before.user_notified)

C7_Witness ==
    /\ last.escalate
    /\ ep.notifyCalls = 1
    /\ ep.trues = 3

\* C8: a UserResponse handled after an escalation sends nothing and does not
\* block new episodes: a later episode in which no response is handled, and
\* which has the count, the persistence and the confirmation request, is
\* escalated.
C8_LateResponseDoesNotBlock ==
    /\ (last.op = "response") => last.out = <<>>
    /\ ( /\ AlertHandled /\ everEscalated
         /\ ~ep.respAny
         /\ ep.trues >= 3
         /\ last.elapsed >= ALERT_THRESHOLD_TIME
         /\ ep.notifyCalls >= 1 )
       => last.escalate

\* C9: consecutive_alerts is 0 right after an alert=false judgment, and in
\* every stored state first_alert_time is unset iff consecutive_alerts = 0.
C9_CountAndFirstAlertTime ==
    /\ (last.op = "analysis" /\ ~last.alert) =>
           AlertStatus.consecutive_alerts = 0
    /\ (AlertStatus.first_alert_time = None) <=>
           (AlertStatus.consecutive_alerts = 0)

\* a single false judgment right after three true ones
C9_Witness ==
    /\ last.op = "analysis" /\ ~last.alert
    /\ last.before.consecutive_alerts = 3
    /\ AlertStatus.consecutive_alerts = 0

\* C10: in every stored alert state, user_responded implies user_notified.
C10_RespondedImpliesNotified ==
    AlertStatus.user_responded => AlertStatus.user_notified

\* C11: an episode with the count reached, the user notified and no response
\* is escalated by time alone: when no further judgment arrives, a periodic
\* sweep attempts the escalation once the threshold has passed.
\* AwaitingEscalation holds while the threshold is still to pass within the
\* clock's range and no escalation was attempted yet.
AwaitingEscalation ==
    /\ AlertStatus.consecutive_alerts >= 3
    /\ AlertStatus.user_notified /\ ~AlertStatus.user_responded
    /\ ep.escCalls = 0
    /\ ep.start + ALERT_THRESHOLD_TIME <= MaxTime

C11_EscalationByTimeAlone ==
    AwaitingEscalation ~> ~AwaitingEscalation

\* C12: once an escalation attempt was made and nothing was delivered, the
\* episode counts as escalated: later alert=true judgments of the episode
\* make no further attempt.
C12_NoSecondAttempt ==
    (AlertHandled /\ last.escalate) => ep.escCalls = 1

\* C13: a classification that raised reaches the decision maker as a
\* judgment with alert=false.
C13_FailedClassificationIsNoAlert ==
    (last.op = "analyze" /\ last.raised) =>
        /\ last.out # <<>>
        /\ \A i \in DOMAIN last.out :
              /\ last.out[i].to = DECISION_MAKER_ADDRESS
              /\ last.out[i].alert = FALSE

\* the facility information notify_emergency_services would read
StoredFacility ==
    IF StorageHas("geo_info") THEN << storage["geo_info"] >> ELSE <<>>

\* C14: once a GeoInfo was handled, the facility information it brought is
\* still stored after every episode reset (an alert=false judgment, or the
\* reset that ends an escalation).
C14_FacilitySurvivesReset ==
    ( /\ geoSeen # <<>>
      /\ last.op = "analysis"
      /\ (~last.alert \/ ep.closed) )
    => StoredFacility = geoSeen

\* C15: the facility information an escalation reads is that of the GeoInfo
\* handled last.
C15_FacilityLastWriteWins ==
    (last.escalate /\ geoSeen # <<>>) => StoredFacility = geoSeen

\* C17: a message about one subject never changes the alert state (count,
\* first alert time, notified and responded flags) of another subject.
C17_SubjectsIsolated ==
    [][\A s \in Subjects :
         s # from' => AlertStateOf(s)' = AlertStateOf(s)]_vars

\* the status handle_analysis leaves for an alert=true judgment, from the
\* status it found and the episode's first clock reading alone
AfterAlert(before) ==
    LET count == before.consecutive_alerts + 1
    IN  [first_alert_time |-> IF before.first_alert_time = None
                              THEN isoformat(ep.start)
                              ELSE before.first_alert_time,
         consecutive_alerts |-> count,
         user_notified |-> (before.user_notified \/ count >= 2),
         user_responded |-> before.user_responded]

C20_RespondedOnceAnyResponse == ep.respAny => AlertStatus.user_responded

\* C20 amended: once a UserResponse was handled in the episode,
\* user_responded is the responded field of the latest one, until the reset.
C20_RespondedIsLastResponse ==
    ep.respAny => (AlertStatus.user_responded = ep.respTrue)

\* a UserResponse{responded: false} handled in an episode leaves the flag false
C20_Witness ==
    /\ last.op = "response"
    /\ ep.respAny
    /\ ~last.responded
    /\ ~AlertStatus.user_responded

\* C21: handle_traffic completes without raising, for every GeoInfo message
\* and every alert state.
C21_TrafficNeverRaises == (last.op = "traffic") => ~last.raised

\* the four episode fields of a status
EpisodeFields(status) ==
    [k \in {"first_alert_time", "consecutive_alerts",
             "user_notified", "user_responded"} |-> status[k]]

\* C22: handling a GeoInfo leaves first_alert_time, consecutive_alerts,
\* user_notified and user_responded as they were and sends nothing, whether
\* the handler completes or fails.
C22_TrafficKeepsEpisode ==
    (last.op = "traffic") =>
        /\ EpisodeFields(AlertStatus) = EpisodeFields(last.before)
        /\ last.out = <<>>

\* a GeoInfo handled in the middle of an episode with the user notified
C22_Witness ==
    /\ last.op = "traffic"
    /\ ep.trues >= 2
    /\ AlertStatus.consecutive_alerts >= 2
    /\ AlertStatus.user_notified

\* C23: notify_user is called at most once per episode, exactly while
\* handling the judgment that brings consecutive_alerts to 2; after every
\* judgment handled, user_notified is true iff consecutive_alerts >= 2.
C23_NotifiedIffTwoAlerts ==
    /\ ep.notifyCalls <= 1
    /\ ep.userMsgs <= 1
    /\ AlertHandled =>
           (last.notifyCalled <=> AlertStatus.consecutive_alerts = 2)
    /\ (last.op = "analysis") =>
           (AlertStatus.user_notified <=> AlertStatus.consecutive_alerts >= 2)

\* the 4th judgment of an episode: the one request went out with the 2nd
C23_Witness ==
    /\ AlertHandled
    /\ ep.trues = 4
    /\ ep.userMsgs = 1
    /\ ~last.notifyCalled
    /\ AlertStatus.user_notified

\* C24: first_alert_time is the clock reading of the episode's first
\* alert=true judgment, whatever judgments, responses and facility infos
\* were handled since; it is unset again only by the reset.
C24_FirstAlertTimeFixed ==
    IF ep.trues >= 1
    THEN AlertStatus.first_alert_time = isoformat(ep.start)
    ELSE AlertStatus.first_alert_time = None

\* a later judgment of an episode, after a response, at a later clock reading
C24_Witness ==
    /\ AlertHandled
    /\ ep.trues >= 3
    /\ ep.respAny
    /\ now > ep.start
    /\ AlertStatus.first_alert_time = isoformat(ep.start)

\* the AggregatedHealthData messages the last handler sent
Batches ==
    { i \in DOMAIN last.out : last.out[i].type = "AggregatedHealthData" }

\* C25 as stated: every batch the collector sends has 5 samples, on the
\* shutdown path too.
C25_BatchesHaveFixedSize ==
    \A i \in Batches : Len(last.out[i].timestamps) = BatchSize

\* C25 amended: a batch sent by fetch_health_data has 5 samples; the batch
\* shutdown sends has the samples left over, between 1 and 4.
C25_FixedSizeButShutdown ==
    \A i \in Batches :
        IF last.op = "shutdown"
        THEN Len(last.out[i].timestamps) \in 1..(BatchSize - 1)
        ELSE Len(last.out[i].timestamps) = BatchSize

\* a shutdown that sent the 4 samples collected since the last full batch
C25_Witness ==
    /\ last.op = "shutdown"
    /\ \E i \in Batches : Len(last.out[i].timestamps) = BatchSize - 1

\* C27: after every fetch_health_data tick the stored buffer holds fewer
\* than 5 samples, whether or not the batch could be sent.
C27_BufferBelowBatch ==
    (last.op = "fetch") => Len(collector.data_points) < BatchSize

\* C26: either button produces a UserResponse with responded=true, and once
\* the response of a button press was handled in an episode, no escalation
\* is triggered in the rest of the episode.
C26_ButtonStopsEscalation ==
    /\ (last.op = "button") =>
           \A i \in DOMAIN last.out : last.out[i].responded = TRUE
    /\ last.escalate => ~ep.respAny
    /\ ep.respAny => AlertStatus.user_responded

\* a judgment after a handled button press, with the count, the request and
\* the threshold that would otherwise escalate
C26_Witness ==
    /\ AlertHandled
    /\ ep.respAny
    /\ ep.trues >= 3
    /\ last.elapsed >= ALERT_THRESHOLD_TIME
    /\ AlertStatus.user_notified
    /\ ~last.escalate

====
